---- MODULE Spec2Model ----
(***************************************************************************)
(* Model of notebooks/1. An-introduction-to-models-in-Pyro.py.             *)
(*                                                                         *)
(* The notebook defines four stochastic functions (weather,                *)
(* ice_cream_sales, geometric, make_normal_normal / normal_product) on top *)
(* of the library's named sampling primitive pyro.sample.  Every cell that *)
(* calls one of them is an operation of the model; a notebook lets its     *)
(* cells be run in any order and any number of times.                      *)
(* The cells that call no named stochastic function (the torch-only draws  *)
(* of lines 36-71 and the single pyro.sample of line 82) only consume      *)
(* variates of the random source and are not operations of the model.      *)
(*                                                                         *)
(* Numbers.  Probabilities and uniform variates are in tenths (0.3 is 3,   *)
(* 1.0 is 10).  A Normal(loc, scale) draw is loc + scale * eps, with eps   *)
(* taken from {-1, 1}; all other quantities are the integers of the code.  *)
(***************************************************************************)
EXTENDS Integers, Sequences, FiniteSets, TLC

VARIABLES
    cell,     \* the notebook cell being run: [id, pc, i, arg]
    stack,    \* the Python call stack below the cell, innermost frame last
    ret,      \* the value returned by the call that ended last
    exc,      \* the exception in flight, "none" when there is none
    trace,    \* (name, value) pairs recorded by pyro.sample in this invocation
    stream,   \* the raw variates the seeded random source has produced so far
    rngPos,   \* how many variates were consumed since the source was seeded
    seeded,   \* the running invocation started from the freshly seeded source
    prev      \* the last finished invocation that started freshly seeded

vars == <<cell, stack, ret, exc, trace, stream, rngPos, seeded, prev>>

(***************************************************************************)
(* Bounds of the model and the inputs the cells are run with.              *)
(***************************************************************************)
\* The interpreter's bound on nested calls (frames of the stack).
RecursionLimit == 4

\* The random source is tracked for this many variates after a seeding;
\* later variates are left unconstrained.
Window == RecursionLimit + 1

\* geometric(p): p in tenths; -5 and 15 are outside [0, 1].
PInputs == {-5, 0, 5, 10, 15}

\* make_normal_normal()(scale): 0 is outside scale > 0.
ScaleInputs == {0, 1, 2}

\* Raw uniform variates of the random source, in tenths.
Raw == {2, 7}

(***************************************************************************)
(* Values.                                                                 *)
(***************************************************************************)
None == [kind |-> "None", s |-> "", n |-> 0]
Num(v) == [kind |-> "num", s |-> "", n |-> v]
Pair(c, t) == [kind |-> "pair", s |-> c, n |-> t]
Closure(mu) == [kind |-> "fn", s |-> "", n |-> mu]

\* A literal sample name, and "x_{}".format(t).
Lit(s) == [base |-> s, idx |-> -1]
Fmt(t) == [base |-> "x_", idx |-> t]

(***************************************************************************)
(* The distribution library.                                               *)
(***************************************************************************)
ValidBernoulli(p) == 0 <= p /\ p <= 10
ValidNormal(loc, scale) == scale > 0

\* A Bernoulli(p) draw from the uniform variate u: 1 with probability p.
Bernoulli(p, u) == IF u < p THEN 1 ELSE 0

\* A Normal(loc, scale) draw from the uniform variate u.
Eps(u) == IF u < 5 THEN -1 ELSE 1
Normal(loc, scale, u) == loc + scale * Eps(u)

(***************************************************************************)
(* The process-wide random source.  The variates that follow a seeding are *)
(* a fixed sequence: stream remembers the ones already produced, so that a *)
(* run after a new seeding reads the same values again.                    *)
(***************************************************************************)
Draw(u) ==
    /\ rngPos < Len(stream) => u = stream[rngPos + 1]
    /\ stream' = IF rngPos = Len(stream) /\ rngPos < Window
                 THEN Append(stream, u) ELSE stream
    /\ rngPos' = IF rngPos < Window THEN rngPos + 1 ELSE rngPos

\* pyro.sample(name, dist) records the value drawn under the name.
Record(name, value) == trace' = Append(trace, [name |-> name, value |-> value])

(***************************************************************************)
(* The call stack.                                                         *)
(***************************************************************************)
Top == stack[Len(stack)]
Pop == SubSeq(stack, 1, Len(stack) - 1)
SetTop(f) == [stack EXCEPT ![Len(stack)] = f]
Running(fn, pc) ==
    /\ exc = "none"
    /\ stack # <<>>
    /\ Top.fn = fn
    /\ Top.pc = pc

\* Variant: a frame catches the exception and goes on without a value.
UnwindHandled ==
    /\ exc # "none"
    /\ stack # <<>>
    /\ stack' = Pop
    /\ exc' = "none"
    /\ ret' = None
    /\ UNCHANGED <<cell, trace, stream, rngPos, seeded, prev>>

\* An exception passes through every frame: no function of the notebook
\* has a handler.
Unwind ==
    /\ exc # "none"
    /\ stack # <<>>
    /\ stack' = Pop
    /\ UNCHANGED <<cell, ret, exc, trace, stream, rngPos, seeded, prev>>

\* A call pushes the callee's frame; the interpreter refuses it when the
\* stack is as deep as it may get.
Call(caller, callee) ==
    IF Len(stack) < RecursionLimit
    THEN /\ stack' = Append(SetTop(caller), callee)
         /\ exc' = exc
    ELSE /\ exc' = "RecursionLimitExceeded"
         /\ stack' = stack

(***************************************************************************)
(* geometric(p, t=None)                                                    *)
(***************************************************************************)
GeometricFrame(p, t) == [fn |-> "geometric", pc |-> "sample", p |-> p, t |-> t, x |-> 0]

\* Variant: t starts from a count that the previous run left behind.
InitialTStale == Len(prev.draws)

\* if t is None: t = 0
InitialT == 0

GeometricName(t) == Fmt(t)

\* x = pyro.sample("x_{}".format(t), pyro.distributions.Bernoulli(p))
GeometricSample ==
    /\ Running("geometric", "sample")
    /\ IF ValidBernoulli(Top.p)
       THEN \E u \in Raw :
              /\ Draw(u)
              /\ Record(GeometricName(Top.t), Bernoulli(Top.p, u))
              /\ stack' = SetTop([Top EXCEPT !.x = Bernoulli(Top.p, u), !.pc = "branch"])
              /\ exc' = exc
       ELSE /\ exc' = "InvalidParameter"
            /\ UNCHANGED <<stack, trace, stream, rngPos>>
    /\ UNCHANGED <<cell, ret, seeded, prev>>

\* Variant: the test of the draw inverted.
IsSuccessFlipped(x) == x = 0

\* if x.item() == 1:
IsSuccess(x) == x = 1

SuccessReturn == 0

\* return 0
GeometricSuccess ==
    /\ Running("geometric", "branch")
    /\ IsSuccess(Top.x)
    /\ stack' = Pop
    /\ ret' = Num(SuccessReturn)
    /\ UNCHANGED <<cell, exc, trace, stream, rngPos, seeded, prev>>

\* Variant: the recursive call passes t on unchanged.
NextTSame(t) == t

NextT(t) == t + 1

\* Variant: the else branch returns 1 without the recursive call.
GeometricRecurseForgotten ==
    /\ Running("geometric", "branch")
    /\ ~IsSuccess(Top.x)
    /\ stack' = Pop
    /\ ret' = Num(1)
    /\ UNCHANGED <<cell, exc, trace, stream, rngPos, seeded, prev>>

\* else: ... geometric(p, t+1): the recursive call
GeometricRecurse ==
    /\ Running("geometric", "branch")
    /\ ~IsSuccess(Top.x)
    /\ Call([Top EXCEPT !.pc = "wait"], GeometricFrame(Top.p, NextT(Top.t)))
    /\ UNCHANGED <<cell, ret, trace, stream, rngPos, seeded, prev>>

\* Variant: the failure is not counted.
FailureReturnDropped(r) == r

FailureReturn(r) == 1 + r

\* Variant: the sum fails (the callee returned no number).
GeometricResumeTypeError ==
    /\ Running("geometric", "wait")
    /\ exc' = "TypeError"
    /\ UNCHANGED <<cell, stack, ret, trace, stream, rngPos, seeded, prev>>

\* return 1 + <the value of the recursive call>
GeometricResume ==
    /\ Running("geometric", "wait")
    /\ stack' = Pop
    /\ ret' = Num(FailureReturn(ret.n))
    /\ UNCHANGED <<cell, exc, trace, stream, rngPos, seeded, prev>>

(***************************************************************************)
(* weather()                                                               *)
(***************************************************************************)
WeatherFrame == [fn |-> "weather", pc |-> "cloudy", cloudy |-> "", temp |-> 0]

CloudyProb == 3

CloudyName == Lit("cloudy")

\* Variant: the name of the first draw copied to the second.
TempNameCopied == Lit("cloudy")

TempName == Lit("temp")

\* cloudy = pyro.sample('cloudy', pyro.distributions.Bernoulli(0.3))
\* cloudy = 'cloudy' if cloudy.item() == 1.0 else 'sunny'
WeatherCloudy ==
    /\ Running("weather", "cloudy")
    /\ \E u \in Raw :
         LET c == Bernoulli(CloudyProb, u) IN
         /\ Draw(u)
         /\ Record(CloudyName, c)
         /\ stack' = SetTop([Top EXCEPT !.cloudy = IF c = 1 THEN "cloudy" ELSE "sunny",
                                        !.pc = "temp"])
    /\ UNCHANGED <<cell, ret, exc, seeded, prev>>

MeanTemp(c) == CASE c = "cloudy" -> 55 [] c = "sunny" -> 75

ScaleTemp(c) == CASE c = "cloudy" -> 10 [] c = "sunny" -> 15

\* temp = pyro.sample('temp', pyro.distributions.Normal(mean_temp, scale_temp))
WeatherTemp ==
    /\ Running("weather", "temp")
    /\ \E u \in Raw :
         LET t == Normal(MeanTemp(Top.cloudy), ScaleTemp(Top.cloudy), u) IN
         /\ Draw(u)
         /\ Record(TempName, t)
         /\ stack' = SetTop([Top EXCEPT !.temp = t, !.pc = "return"])
    /\ UNCHANGED <<cell, ret, exc, seeded, prev>>

\* return cloudy, temp.item()
WeatherReturn ==
    /\ Running("weather", "return")
    /\ stack' = Pop
    /\ ret' = Pair(Top.cloudy, Top.temp)
    /\ UNCHANGED <<cell, exc, trace, stream, rngPos, seeded, prev>>

(***************************************************************************)
(* ice_cream_sales()                                                       *)
(***************************************************************************)
IceCreamFrame == [fn |-> "ice_cream_sales", pc |-> "weather", ice_cream |-> 0]

\* cloudy, temp = weather()
IceCreamCallWeather ==
    /\ Running("ice_cream_sales", "weather")
    /\ Call([Top EXCEPT !.pc = "wait"], WeatherFrame)
    /\ UNCHANGED <<cell, ret, trace, stream, rngPos, seeded, prev>>

ExpectedSales(cloudy, temp) == IF cloudy = "sunny" /\ temp > 80 THEN 200 ELSE 50

IceCreamName == Lit("ice_cream")

\* ice_cream = pyro.sample('ice_cream', pyro.distributions.Normal(expected_sales, 10.0))
IceCreamSample ==
    /\ Running("ice_cream_sales", "wait")
    /\ \E u \in Raw :
         LET v == Normal(ExpectedSales(ret.s, ret.n), 10, u) IN
         /\ Draw(u)
         /\ Record(IceCreamName, v)
         /\ stack' = SetTop([Top EXCEPT !.ice_cream = v, !.pc = "return"])
    /\ UNCHANGED <<cell, ret, exc, seeded, prev>>

\* return ice_cream
IceCreamReturn ==
    /\ Running("ice_cream_sales", "return")
    /\ stack' = Pop
    /\ ret' = Num(Top.ice_cream)
    /\ UNCHANGED <<cell, exc, trace, stream, rngPos, seeded, prev>>

(***************************************************************************)
(* normal_product(loc, scale) and make_normal_normal()                     *)
(***************************************************************************)
NormalProductFrame(loc, scale) ==
    [fn |-> "normal_product", pc |-> "z1", loc |-> loc, scale |-> scale, z1 |-> 0, z2 |-> 0]

\* One sampling statement of normal_product: the distribution is built from
\* the arguments first, and the value is drawn and recorded only if that
\* succeeds.
NormalProductDraw(name, field, nextpc) ==
    IF ValidNormal(Top.loc, Top.scale)
    THEN \E u \in Raw :
           LET z == Normal(Top.loc, Top.scale, u) IN
           /\ Draw(u)
           /\ Record(name, z)
           /\ stack' = SetTop([Top EXCEPT ![field] = z, !.pc = nextpc])
           /\ exc' = exc
    ELSE /\ exc' = "InvalidParameter"
         /\ UNCHANGED <<stack, trace, stream, rngPos>>

\* z1 = pyro.sample("z1", pyro.distributions.Normal(loc, scale))
NormalProductZ1 ==
    /\ Running("normal_product", "z1")
    /\ NormalProductDraw(Lit("z1"), "z1", "z2")
    /\ UNCHANGED <<cell, ret, seeded, prev>>

\* z2 = pyro.sample("z2", pyro.distributions.Normal(loc, scale))
NormalProductZ2 ==
    /\ Running("normal_product", "z2")
    /\ NormalProductDraw(Lit("z2"), "z2", "return")
    /\ UNCHANGED <<cell, ret, seeded, prev>>

\* y = z1 * z2; return y
NormalProductReturn ==
    /\ Running("normal_product", "return")
    /\ stack' = Pop
    /\ ret' = Num(Top.z1 * Top.z2)
    /\ UNCHANGED <<cell, exc, trace, stream, rngPos, seeded, prev>>

MakeFrame == [fn |-> "make_normal_normal", pc |-> "mu", mu_latent |-> 0]

MuName == Lit("mu_laten")

\* mu_latent = pyro.sample("mu_laten", pyro.distributions.Normal(0, 1))
MakeSample ==
    /\ Running("make_normal_normal", "mu")
    /\ \E u \in Raw :
         LET mu == Normal(0, 1, u) IN
         /\ Draw(u)
         /\ Record(MuName, mu)
         /\ stack' = SetTop([Top EXCEPT !.mu_latent = mu, !.pc = "return"])
    /\ UNCHANGED <<cell, ret, exc, seeded, prev>>

\* fn = lambda scale: normal_product(mu_latent, scale); return fn
MakeReturn ==
    /\ Running("make_normal_normal", "return")
    /\ stack' = Pop
    /\ ret' = Closure(Top.mu_latent)
    /\ UNCHANGED <<cell, exc, trace, stream, rngPos, seeded, prev>>

LambdaFrame(mu, scale) == [fn |-> "lambda", pc |-> "call", mu_latent |-> mu, scale |-> scale]

\* the body of fn: normal_product(mu_latent, scale)
LambdaCall ==
    /\ Running("lambda", "call")
    /\ Call([Top EXCEPT !.pc = "wait"], NormalProductFrame(Top.mu_latent, Top.scale))
    /\ UNCHANGED <<cell, ret, trace, stream, rngPos, seeded, prev>>

\* fn returns what normal_product returned
LambdaReturn ==
    /\ Running("lambda", "wait")
    /\ stack' = Pop
    /\ UNCHANGED <<cell, ret, exc, trace, stream, rngPos, seeded, prev>>

(***************************************************************************)
(* The cells of the notebook.  A cell that calls a stochastic function is  *)
(* a top-level invocation: the record of its named draws starts empty and  *)
(* is dropped when the cell has printed the result or shown the error.     *)
(***************************************************************************)
Idle == [id |-> "idle", pc |-> "idle", i |-> 0, arg |-> 0]

NoRun == [key |-> <<"none", 0>>, draws |-> <<>>, ret |-> None, exc |-> "none"]

\* The record of named draws of one invocation starts, and ends, empty.
Fresh == trace' = <<>>

\* The top-level call of frame f.
Invoke(f) ==
    /\ stack' = <<f>>
    /\ Fresh
    /\ ret' = None
    /\ exc' = "none"
    /\ seeded' = (rngPos = 0)

\* The invocation of the cell has ended, by a return or by an exception.
Finished == stack = <<>> /\ cell.pc = "call"

\* What the invocation that ends did, kept when it started freshly seeded.
Remember ==
    prev' = IF seeded
            THEN [key |-> <<cell.id, cell.arg>>, draws |-> trace, ret |-> ret, exc |-> exc]
            ELSE prev

\* pyro.set_rng_seed(101)
Seed ==
    /\ cell = Idle
    /\ rngPos # 0
    /\ rngPos' = 0
    /\ UNCHANGED <<cell, stack, ret, exc, trace, stream, seeded, prev>>

NumWeatherCalls == 5

\* for _ in range(5):
RunWeatherLoop ==
    /\ cell = Idle
    /\ cell' = [id |-> "weather", pc |-> "iter", i |-> 0, arg |-> 0]
    /\ UNCHANGED <<stack, ret, exc, trace, stream, rngPos, seeded, prev>>

\*     ... weather()
WeatherLoopCall ==
    /\ cell.id = "weather"
    /\ cell.pc = "iter"
    /\ cell.i < NumWeatherCalls
    /\ Invoke(WeatherFrame)
    /\ cell' = [cell EXCEPT !.pc = "call"]
    /\ UNCHANGED <<stream, rngPos, prev>>

\*     print(...)
WeatherLoopPrint ==
    /\ cell.id = "weather"
    /\ Finished
    /\ exc = "none"
    /\ Remember
    /\ cell' = [cell EXCEPT !.pc = "iter", !.i = cell.i + 1]
    /\ Fresh
    /\ ret' = None
    /\ UNCHANGED <<stack, exc, stream, rngPos, seeded>>

WeatherLoopEnd ==
    /\ cell.id = "weather"
    /\ cell.pc = "iter"
    /\ cell.i = NumWeatherCalls
    /\ cell' = Idle
    /\ UNCHANGED <<stack, ret, exc, trace, stream, rngPos, seeded, prev>>

\* ice_cream_sales()
RunIceCreamSales ==
    /\ cell = Idle
    /\ Invoke(IceCreamFrame)
    /\ cell' = [id |-> "ice_cream_sales", pc |-> "call", i |-> 0, arg |-> 0]
    /\ UNCHANGED <<stream, rngPos, prev>>

\* print(geometric(0.5)), for any p
RunGeometric ==
    /\ cell = Idle
    /\ \E p \in PInputs :
         /\ Invoke(GeometricFrame(p, InitialT))
         /\ cell' = [id |-> "geometric", pc |-> "call", i |-> 0, arg |-> p]
    /\ UNCHANGED <<stream, rngPos, prev>>

\* print(make_normal_normal()(1.)), for any scale: first make_normal_normal()
RunMakeNormalNormal ==
    /\ cell = Idle
    /\ \E scale \in ScaleInputs :
         /\ Invoke(MakeFrame)
         /\ cell' = [id |-> "make_normal_normal", pc |-> "make", i |-> 0, arg |-> scale]
    /\ UNCHANGED <<stream, rngPos, prev>>

\* ... then the function it returned, applied to scale
ApplyReturnedFunction ==
    /\ cell.id = "make_normal_normal"
    /\ cell.pc = "make"
    /\ stack = <<>>
    /\ exc = "none"
    /\ stack' = <<LambdaFrame(ret.n, cell.arg)>>
    /\ cell' = [cell EXCEPT !.pc = "call"]
    /\ UNCHANGED <<ret, exc, trace, stream, rngPos, seeded, prev>>

\* The value of the cell is printed.
CellPrint ==
    /\ cell.id \in {"ice_cream_sales", "geometric", "make_normal_normal"}
    /\ Finished
    /\ exc = "none"
    /\ Remember
    /\ cell' = Idle
    /\ Fresh
    /\ ret' = None
    /\ UNCHANGED <<stack, exc, stream, rngPos, seeded>>

\* The exception reaches the notebook, which shows it: the cell has failed.
CellFail ==
    /\ stack = <<>>
    /\ exc # "none"
    /\ Remember
    /\ cell' = Idle
    /\ Fresh
    /\ ret' = None
    /\ exc' = "none"
    /\ UNCHANGED <<stack, stream, rngPos, seeded>>

(***************************************************************************)
(* The specification.                                                      *)
(***************************************************************************)
\* The state after the first cell: the library imported, the source seeded.
Init ==
    /\ cell = Idle
    /\ stack = <<>>
    /\ ret = None
    /\ exc = "none"
    /\ trace = <<>>
    /\ stream = <<>>
    /\ rngPos = 0
    /\ seeded = FALSE
    /\ prev = NoRun

\* A step of the function that is running.
Step ==
    \/ GeometricSample
    \/ GeometricSuccess
    \/ GeometricRecurse
    \/ GeometricResume
    \/ WeatherCloudy
    \/ WeatherTemp
    \/ WeatherReturn
    \/ IceCreamCallWeather
    \/ IceCreamSample
    \/ IceCreamReturn
    \/ NormalProductZ1
    \/ NormalProductZ2
    \/ NormalProductReturn
    \/ MakeSample
    \/ MakeReturn
    \/ LambdaCall
    \/ LambdaReturn
    \/ Unwind

\* A step of the notebook.
CellStep ==
    \/ Seed
    \/ RunWeatherLoop
    \/ WeatherLoopCall
    \/ WeatherLoopPrint
    \/ WeatherLoopEnd
    \/ RunIceCreamSales
    \/ RunGeometric
    \/ RunMakeNormalNormal
    \/ ApplyReturnedFunction
    \/ CellPrint
    \/ CellFail

Next == Step \/ CellStep

Spec == Init /\ [][Next]_vars

\* The interpreter runs the function that was called to its end.
FairSpec == Spec /\ WF_vars(Step)

(***************************************************************************)
(* Properties.                                                             *)
(***************************************************************************)
Names(tr) == [k \in 1..Len(tr) |-> tr[k].name]

Values(tr) == [k \in 1..Len(tr) |-> tr[k].value]

NoDup(tr) == \A j, k \in 1..Len(tr) : j # k => tr[j].name # tr[k].name

InGeometric == cell.id = "geometric"

\* The top-level call of the cell has returned a value.
Returned == Finished /\ exc = "none"

\* C1: geometric(p) returns the number of failures before the first
\* success.  The draws are recorded under x_0, x_1, ... in this order; every
\* draw but the last one recorded is a failure (0), so nothing is drawn
\* after a success; and when the call returns n, exactly n + 1 draws were
\* made, of which the last, x_n, is the success (1).
C1_GeometricCountsFailures ==
    InGeometric =>
        /\ \A k \in 1..Len(trace) : trace[k].name = Fmt(k - 1)
        /\ \A k \in 1..(Len(trace) - 1) : trace[k].value = 0
        /\ Returned =>
             /\ ret.kind = "num"
             /\ Len(trace) = ret.n + 1
             /\ trace[ret.n + 1] = [name |-> Fmt(ret.n), value |-> 1]

\* geometric(0.5) has returned 2 after the draws 0, 0, 1.
C1_Witness ==
    /\ InGeometric
    /\ cell.arg = 5
    /\ Returned
    /\ ret = Num(2)
    /\ Values(trace) = <<0, 0, 1>>

\* C2: geometric(1) returns 0 from the first call.  Exactly one draw is
\* made, it is named x_0 and is a success, no recursive call is made, no
\* exception is raised, and the value returned is 0.
C2_GeometricOneReturnsZero ==
    (InGeometric /\ cell.arg = 10) =>
        /\ Len(stack) <= 1
        /\ exc = "none"
        /\ trace \in {<<>>, <<[name |-> Fmt(0), value |-> 1]>>}
        /\ Finished => (ret = Num(0) /\ Len(trace) = 1)

\* geometric(1) has returned.
C2_Witness ==
    /\ InGeometric
    /\ cell.arg = 10
    /\ Returned
    /\ ret = Num(0)
    /\ Names(trace) = <<Fmt(0)>>

\* C3: within one invocation no two sampling calls use the same name: the
\* names recorded so far are pairwise distinct in every state.  The frames of
\* geometric carry t = 0, 1, 2, ... from the outermost inwards, and the name
\* recorded at level t is x_t.
C3_NamesDistinct ==
    /\ NoDup(trace)
    /\ InGeometric =>
         /\ \A d \in 1..Len(stack) : stack[d].t = d - 1
         /\ \A k \in 1..Len(trace) : trace[k].name = Fmt(k - 1)

\* geometric is three levels deep and has recorded x_0, x_1, x_2.
C3_Witness ==
    /\ InGeometric
    /\ Len(stack) = 3
    /\ Names(trace) = <<Fmt(0), Fmt(1), Fmt(2)>>

\* A top-level call that has not sampled yet.
AtEntry ==
    /\ Len(stack) = 1
    /\ cell.pc \in {"call", "make"}
    /\ Top.pc \in {"cloudy", "weather", "sample", "mu"}

\* C4: every top-level invocation starts with an empty record of named
\* draws, and the record is dropped when the invocation is over.  So the
\* five calls of weather() in the loop each record 'cloudy' and then 'temp'
\* and nothing else, and no name is ever recorded twice.
C4_FreshTracePerCall ==
    /\ AtEntry => trace = <<>>
    /\ (cell = Idle \/ cell.pc = "iter") => trace = <<>>
    /\ cell.id = "weather" =>
         /\ NoDup(trace)
         /\ \/ Names(trace) = <<>>
            \/ Names(trace) = <<CloudyName>>
            \/ Names(trace) = <<CloudyName, TempName>>

\* The fifth call of weather() in the loop has returned.
C4_Witness ==
    /\ cell.id = "weather"
    /\ cell.i = NumWeatherCalls - 1
    /\ Returned
    /\ ret.kind = "pair"
    /\ Names(trace) = <<CloudyName, TempName>>

\* C5: two invocations of the same function with the same argument that
\* both start from the freshly seeded random source make the same named
\* draws with the same values and end the same way (the same value
\* returned, or the same exception).
C5_SeedDeterminism ==
    (Finished /\ seeded /\ prev.key = <<cell.id, cell.arg>>) =>
        /\ trace = prev.draws
        /\ ret = prev.ret
        /\ exc = prev.exc

\* geometric(0.5) has run twice from the seeded source, with three draws.
C5_Witness ==
    /\ InGeometric
    /\ cell.arg = 5
    /\ Finished
    /\ seeded
    /\ prev.key = <<cell.id, cell.arg>>
    /\ Len(prev.draws) = 3
    /\ Len(trace) = 3

\* C6: geometric(0) never returns a value.  Every draw is a failure, no
\* frame ever returns, and the call can only end with the stack at the
\* interpreter's limit, by RecursionLimitExceeded.
C6_GeometricZeroNeverReturns ==
    (InGeometric /\ cell.arg = 0) =>
        /\ \A k \in 1..Len(trace) : trace[k].value = 0
        /\ ret = None
        /\ exc \in {"none", "RecursionLimitExceeded"}
        /\ ~Returned
        /\ Finished => Len(trace) = RecursionLimit

\* geometric(0) has ended by RecursionLimitExceeded.
C6_Witness ==
    /\ InGeometric
    /\ cell.arg = 0
    /\ Finished
    /\ exc = "RecursionLimitExceeded"
    /\ Len(trace) = RecursionLimit

\* geometric(p) with 0 < p < 1 is running or has just ended.
InGeometricProper == InGeometric /\ 0 < cell.arg /\ cell.arg < 10

\* C7: for 0 < p < 1, once a success is drawn geometric(p) returns the
\* count, and every call ends (by a return, or at the interpreter's limit).
C7_GeometricTerminates ==
    /\ (InGeometricProper /\ trace # <<>> /\ trace[Len(trace)].value = 1)
         ~> (InGeometricProper /\ Returned /\ ret = Num(Len(trace) - 1))
    /\ InGeometricProper ~> (InGeometricProper /\ Finished)

\* geometric(0.5) is as deep as the interpreter allows, has drawn only
\* failures and has not returned.
C7_Witness ==
    /\ InGeometricProper
    /\ Len(stack) = RecursionLimit
    /\ Len(trace) = RecursionLimit
    /\ \A k \in 1..Len(trace) : trace[k].value = 0
    /\ exc = "none"

\* C8: one execution of make_normal_normal records exactly the three named
\* draws mu_laten, z1, z2: when make_normal_normal has returned, the three
\* are recorded.
C8_MakeNormalNormalDrawsThree ==
    (cell.id = "make_normal_normal" /\ cell.pc = "make" /\ stack = <<>>) =>
        Names(trace) = <<MuName, Lit("z1"), Lit("z2")>>

\* What the code does: make_normal_normal() records mu_laten alone and
\* returns a function; that function, applied to a valid scale, records z1
\* and z2, both drawn around mu_latent.
MakeThenApplyDrawsThree ==
    cell.id = "make_normal_normal" =>
        /\ (cell.pc = "make" /\ stack = <<>>) =>
             (Names(trace) = <<MuName>> /\ ret = Closure(trace[1].value))
        /\ (cell.pc = "call" /\ Returned) =>
             /\ Names(trace) = <<MuName, Lit("z1"), Lit("z2")>>
             /\ \A k \in 2..3 : \E u \in Raw :
                  trace[k].value = Normal(trace[1].value, cell.arg, u)
             /\ ret = Num(trace[2].value * trace[3].value)

\* The argument of the cell is outside the domain of the distribution.
InvalidArg ==
    \/ InGeometric /\ ~ValidBernoulli(cell.arg)
    \/ cell.id = "make_normal_normal" /\ ~ValidNormal(0, cell.arg)

\* C10: a sampling call with parameters outside the domain of its
\* distribution raises InvalidParameter before anything is drawn or recorded
\* under its name, and the exception reaches the cell: geometric(p) with p
\* outside [0, 1] draws nothing (the random source stays where the seeding
\* left it), records nothing and returns nothing, make_normal_normal()
\* applied to a scale <= 0 records mu_laten alone, and either call ends with
\* InvalidParameter.  No other call raises it.
C10_InvalidParameterPropagates ==
    /\ exc = "InvalidParameter" => InvalidArg
    /\ (InGeometric /\ InvalidArg) =>
         /\ trace = <<>>
         /\ seeded => rngPos = 0
         /\ ret = None
         /\ Len(stack) <= 1
         /\ Finished => exc = "InvalidParameter"
    /\ (cell.id = "make_normal_normal" /\ InvalidArg /\ cell.pc = "call") =>
         /\ Names(trace) = <<MuName>>
         /\ ret = Closure(trace[1].value)
         /\ Finished => exc = "InvalidParameter"

\* make_normal_normal()(0) has ended by InvalidParameter, raised in
\* normal_product and passed through the frame of the function returned.
C10_Witness ==
    /\ cell.id = "make_normal_normal"
    /\ cell.arg = 0
    /\ Finished
    /\ exc = "InvalidParameter"
    /\ Names(trace) = <<MuName>>

====
